---- MODULE Spec2Model ----
(***************************************************************************)
(* Model of app.py (AI Book Finder): the IR functions tokenize,            *)
(* build_tfidf, cosine_similarity, search_with_ir and recommend_similar,   *)
(* and the Streamlit script that loads the catalogue, publishes the index  *)
(* into the session state and reacts to the buttons.                       *)
(*                                                                         *)
(* Text is a sequence of one-character strings.  Python floats are kept in *)
(* fixed point: an idf weight is held times IdfScale, a cosine and a       *)
(* final score times CosScale (rounded down).                              *)
(***************************************************************************)
EXTENDS Integers, Sequences, FiniteSets, TLC

\* ------------------------------------------------------------------ bounds
\* largest corpus handed to build_tfidf in the function-level specification
MaxDocs == 3
\* largest corpus the fetcher returns in the application specification
MaxBooks == 2
\* largest top_n passed to recommend_similar
MaxTopN == 3

\* ------------------------------------------------------- program constants
\* cos_score * 4.0
CosWeight == 4
\* sum(3 for token in query_tokens if token in title_tokens)
TitleWeight == 3
\* sum(2 for token in query_tokens if token in author_tokens)
AuthorWeight == 2
\* recommend_similar(book_idx, books, doc_vectors, top_n=4)
DefaultTopN == 4
\* fixed-point scale of an idf weight (math.log(...) + 1)
IdfScale == 10
\* fixed-point scale of a cosine / final score (dot / (norm1 * norm2))
CosScale == 1000

\* --------------------------------------------------------------- helpers
Range(s) == {s[i] : i \in 1..Len(s)}

Min(a, b) == IF a <= b THEN a ELSE b

RECURSIVE SumSeq(_)
SumSeq(s) == IF s = <<>> THEN 0 ELSE s[1] + SumSeq(Tail(s))

Max(a, b) == IF a >= b THEN a ELSE b

\* floor of the square root of n, by bisection on lo..hi
RECURSIVE SqrtBetween(_, _, _)
SqrtBetween(n, lo, hi) ==
    IF lo >= hi THEN lo
    ELSE LET mid == (lo + hi + 1) \div 2
         IN  IF mid * mid <= n THEN SqrtBetween(n, mid, hi)
             ELSE SqrtBetween(n, lo, mid - 1)

ISqrt(n) == SqrtBetween(n, 0, Min(n, 46340))

\* all orders in which the elements of the finite set S can be listed
Orders(S) ==
    {f \in [1..Cardinality(S) -> S] : \A i, j \in DOMAIN f : f[i] = f[j] => i = j}

\* ------------------------------------------------------------- tokenize
\* str.lower() on the characters of the model's alphabet
LowerChar(c) ==
    CASE c = "P" -> "p"
      [] c = "J" -> "j"
      [] c = "A" -> "a"
      [] OTHER -> c

\* .replace(',', ' ').replace('.', ' ')
ReplacePunct(c) == IF c = "," \/ c = "." THEN " " ELSE c

\* str.split(): cut at runs of whitespace, no empty words
RECURSIVE Split(_, _)
Split(chars, word) ==
    IF chars = <<>>
    THEN (IF word = <<>> THEN <<>> ELSE <<word>>)
    ELSE IF chars[1] = " "
         THEN (IF word = <<>> THEN <<>> ELSE <<word>>) \o Split(Tail(chars), <<>>)
         ELSE Split(Tail(chars), Append(word, chars[1]))

tokenize(text) ==
    IF text = <<>> THEN <<>>
    ELSE Split([i \in 1..Len(text) |-> ReplacePunct(LowerChar(text[i]))], <<>>)

\* Counter(tokens)[word]
Count(word, tokens) == Cardinality({i \in 1..Len(tokens) : tokens[i] = word})

\* ---------------------------------------------------------- build_tfidf
\* the set built by vocab.update(tokenize(doc)) over all documents
VocabSet(documents) ==
    UNION {Range(tokenize(documents[d])) : d \in 1..Len(documents)}

\* {word: i for i, word in enumerate(vocab)}, slots counted from 0
VocabIndex(vocab) ==
    [w \in Range(vocab) |-> (CHOOSE i \in 1..Len(vocab) : vocab[i] = w) - 1]

\* round(IdfScale * ln(k)) for k = 1..10
LnTable == <<0, 7, 11, 14, 16, 18, 19, 21, 22, 23>>

\* df = sum(1 for doc in documents if word in tokenize(doc))
DocFreq(word, documents) ==
    Cardinality({d \in 1..Len(documents) : word \in Range(tokenize(documents[d]))})

\* idf[word] = math.log((N + 1) / (df + 1)) + 1, times IdfScale
Idf(word, documents) ==
    LnTable[Len(documents) + 1] - LnTable[DocFreq(word, documents) + 1] + IdfScale

\* vector = [0] * len(vocab); vector[idx] = count * idf.get(word, 0) for the
\* words of tokens that are in vocab_index
Vectorize(tokens, vocab_index, idf) ==
    [s \in 1..Cardinality(DOMAIN vocab_index) |->
        LET w == CHOOSE x \in DOMAIN vocab_index : vocab_index[x] = s - 1
        IN  IF w \in Range(tokens)
            THEN Count(w, tokens) * (IF w \in DOMAIN idf THEN idf[w] ELSE 0)
            ELSE 0]

\* build_tfidf(documents), with vocab = list(vocab) listing the set in the
\* order `vocab` (the iteration order of a Python set is not fixed)
\* a build that skips the documents without tokens
build_tfidf_SkipsEmpty(documents, vocab) ==
    LET vocab_index == VocabIndex(vocab)
        idf == [w \in Range(vocab) |-> Idf(w, documents)]
        withText == SelectSeq(documents, LAMBDA doc : tokenize(doc) # <<>>)
    IN  [vectors |-> [d \in 1..Len(withText) |->
                        Vectorize(tokenize(withText[d]), vocab_index, idf)],
         vocab_index |-> vocab_index,
         idf |-> idf]

build_tfidf(documents, vocab) ==
    LET vocab_index == VocabIndex(vocab)
        idf == [w \in Range(vocab) |-> Idf(w, documents)]
    IN  [vectors |-> [d \in 1..Len(documents) |->
                        Vectorize(tokenize(documents[d]), vocab_index, idf)],
         vocab_index |-> vocab_index,
         idf |-> idf]

\* number of tokenize(doc) calls made by one build_tfidf(documents): one per
\* document in the vocabulary loop, one per (word, document) in the df loop,
\* one per document in the vector loop
TokenizeCalls(documents) ==
    Len(documents)
    + Cardinality(VocabSet(documents)) * Len(documents)
    + Len(documents)

\* ---------------------------------------------------- cosine_similarity
\* sum(a * b for a, b in zip(vec1, vec2)): zip stops at the shorter vector
Dot(vec1, vec2) ==
    SumSeq([i \in 1..Min(Len(vec1), Len(vec2)) |-> vec1[i] * vec2[i]])

\* sum(a * a for a in vec), the square of the norm
SumSquares(vec) == SumSeq([i \in 1..Len(vec) |-> vec[i] * vec[i]])

\* cosine_similarity(vec1, vec2), times CosScale
cosine_similarity(vec1, vec2) ==
    IF vec1 = <<>> \/ vec2 = <<>> THEN 0
    ELSE IF SumSquares(vec1) = 0 \/ SumSquares(vec2) = 0 THEN 0
    ELSE (CosScale * Dot(vec1, vec2)) \div ISqrt(SumSquares(vec1) * SumSquares(vec2))

\* ------------------------------------------- list.sort(reverse=True)
\* x goes behind every element whose key is >= its own: equal keys keep
\* their original order, as Python's stable sort does with reverse=True
\* a sort that puts x in front of the elements with an equal key
RECURSIVE InsertDescUnstable(_, _)
InsertDescUnstable(sorted, x) ==
    IF sorted = <<>> THEN <<x>>
    ELSE IF sorted[1].score > x.score
         THEN <<sorted[1]>> \o InsertDescUnstable(Tail(sorted), x)
         ELSE <<x>> \o sorted

RECURSIVE InsertDesc(_, _)
InsertDesc(sorted, x) ==
    IF sorted = <<>> THEN <<x>>
    ELSE IF sorted[1].score >= x.score
         THEN <<sorted[1]>> \o InsertDesc(Tail(sorted), x)
         ELSE <<x>> \o sorted

RECURSIVE SortDesc(_)
SortDesc(scores) ==
    IF scores = <<>> THEN <<>>
    ELSE InsertDesc(SortDesc(SubSeq(scores, 1, Len(scores) - 1)), scores[Len(scores)])

\* [book for book, score in scores]
BooksOf(scores) == [i \in 1..Len(scores) |-> scores[i].book]

\* -------------------------------------------------------- search_with_ir
\* sum(w for token in query_tokens if token in field_tokens)
\* a boost that counts each distinct query word once
FieldMatchDistinct(w, query_tokens, field_tokens) ==
    w * Cardinality(Range(query_tokens) \cap Range(field_tokens))

FieldMatch(w, query_tokens, field_tokens) ==
    SumSeq([i \in 1..Len(query_tokens) |->
              IF query_tokens[i] \in Range(field_tokens) THEN w ELSE 0])

\* final_score of books[i] (i counted from 1), times CosScale
FinalScore(query_tokens, query_vector, book, doc_vec) ==
    cosine_similarity(query_vector, doc_vec) * CosWeight
    + CosScale * FieldMatch(TitleWeight, query_tokens, tokenize(book.title))
    + CosScale * FieldMatch(AuthorWeight, query_tokens, tokenize(book.author))

\* the list scores of search_with_ir before it is sorted
SearchScores(query, bks, vecs, vindex, idfs) ==
    LET query_tokens == tokenize(query)
        query_vector == Vectorize(query_tokens, vindex, idfs)
    IN  [i \in 1..Len(vecs) |->
           [book |-> bks[i],
            score |-> FinalScore(query_tokens, query_vector, bks[i], vecs[i])]]

\* a filter that lets a score of 0 through
HasNonNegativeScore(entry) == entry.score >= 0

HasPositiveScore(entry) == entry.score > 0

search_with_ir(query, bks, vecs, vindex, idfs) ==
    BooksOf(SelectSeq(SortDesc(SearchScores(query, bks, vecs, vindex, idfs)),
                      HasPositiveScore))

\* ----------------------------------------------------- recommend_similar
\* scores[:top_n]
Slice(scores, top_n) ==
    IF top_n >= 0 THEN SubSeq(scores, 1, Min(top_n, Len(scores)))
    ELSE SubSeq(scores, 1, Max(0, Len(scores) + top_n))

\* the list scores of recommend_similar before it is sorted; book_idx and
\* the positions i are counted from 0 as in the code
\* a loop without the test i != book_idx
RecommendScoresWithSelf(book_idx, bks, vecs) ==
    [k \in 1..Len(vecs) |->
       [book |-> bks[k], score |-> cosine_similarity(vecs[book_idx + 1], vecs[k])]]

RecommendScores(book_idx, bks, vecs) ==
    LET others == SelectSeq([i \in 1..Len(vecs) |-> i - 1], LAMBDA i : i # book_idx)
    IN  [k \in 1..Len(others) |->
           [book |-> bks[others[k] + 1],
            score |-> cosine_similarity(vecs[book_idx + 1], vecs[others[k] + 1])]]

\* a guard without book_idx < 0: a negative index then counts from the end
recommend_similar_NoNegativeGuard(book_idx, bks, vecs, top_n) ==
    IF book_idx >= Len(vecs) \/ book_idx < -Len(vecs) THEN <<>>
    ELSE LET at == IF book_idx < 0 THEN Len(vecs) + book_idx ELSE book_idx
             others == SelectSeq([i \in 1..Len(vecs) |-> i - 1], LAMBDA i : i # book_idx)
         IN  BooksOf(Slice(SortDesc(
               [k \in 1..Len(others) |->
                  [book |-> bks[others[k] + 1],
                   score |-> cosine_similarity(vecs[at + 1], vecs[others[k] + 1])]]),
               top_n))

recommend_similar(book_idx, bks, vecs, top_n) ==
    IF book_idx < 0 \/ book_idx >= Len(vecs) THEN <<>>
    ELSE BooksOf(Slice(SortDesc(RecommendScores(book_idx, bks, vecs)), top_n))

\* ------------------------------------------------------------ catalogue
\* volumes the Google Books API can answer with, as the fetcher stores them
\* (rating in tenths); the id is given by the fetcher
Volume(title, author, category, description, year, rating) ==
    [title |-> title, author |-> author, category |-> category,
     description |-> description, year |-> year, rating |-> rating]

\* "Py" by "A." in "A": "py js"
VolPython ==
    Volume(<<"P", "y">>, <<"A", ".">>, <<"A">>, <<"p", "y", " ", "j", "s">>, 2020, 40)
\* "Js, Py" by "A" in "Js": "js"
VolScript ==
    Volume(<<"J", "s", ",", " ", "P", "y">>, <<"A">>, <<"J", "s">>, <<"j", "s">>, 2021, 50)
\* "a" by "Py." in "A": "a"
VolAuthor ==
    Volume(<<"a">>, <<"P", "y", ".">>, <<"A">>, <<"a">>, 2019, 40)
\* a record none of whose fields holds text
VolBlank ==
    Volume(<<>>, <<>>, <<>>, <<>>, 2020, 40)

\* the volumes the fetcher of the page is answered with
FetchCatalog == {VolPython, VolScript}

\* the volumes of the corpora handed to the IR functions directly
Catalog == {VolPython, VolScript, VolAuthor, VolBlank}

\* 'id': f'b{book_id}' with book_id = 1, 2, ... in the order of all_books
WithIds(volumes) ==
    [i \in 1..Len(volumes) |->
       [id |-> i, title |-> volumes[i].title, author |-> volumes[i].author,
        category |-> volumes[i].category, description |-> volumes[i].description,
        year |-> volumes[i].year, rating |-> volumes[i].rating]]

\* the lists of at most n volumes of S, with their ids
Corpora(S, n) == UNION {{WithIds(v) : v \in [1..k -> S]} : k \in 0..n}

\* f"{b['title']} {b['author']} {b['category']} {b['description']}"
DocumentOf(b) ==
    b.title \o <<" ">> \o b.author \o <<" ">> \o b.category \o <<" ">> \o b.description

Documents(bks) == [i \in 1..Len(bks) |-> DocumentOf(bks[i])]

\* the text typed into the search box
Queries ==
    {<<>>, <<" ">>, <<"j", "s">>, <<"P", "y">>, <<"p", "y", " ", "p", "y">>,
     <<"A", ",", " ", "j", "s", ".">>, <<"z", "z">>}

\* the non-empty texts typed into the search box of the page (`if query`)
TypedQueries == {<<" ">>, <<"j", "s">>, <<"P", "y">>}

\* vectors handed to cosine_similarity on its own
TestVectors == UNION {[1..k -> 0..2] : k \in 0..2}

\* ---------------------------------------------------------------- state
VARIABLES
    pc,             \* where the script (or the function-level driver) stands
    session_keys,   \* the keys present in st.session_state
    books,          \* st.session_state.books
    doc_vectors,    \* st.session_state.doc_vectors
    vocab_index,    \* st.session_state.vocab_index
    idf,            \* st.session_state.idf
    loaded_initial, \* st.session_state.loaded_initial
    favorites,      \* st.session_state.favorites
    display_books,  \* st.session_state.display_books
    selected_book,  \* st.session_state.selected_book
    selected_idx,   \* st.session_state.selected_idx
    built,          \* the locals vectors, vocab_idx, idf_scores of the load
    call            \* the last call of an IR function and what it returned

vars == <<pc, session_keys, books, doc_vectors, vocab_index, idf, loaded_initial,
          favorites, display_books, selected_book, selected_idx, built, call>>

session == <<session_keys, loaded_initial, favorites, display_books,
             selected_book, selected_idx, built>>

\* the value of a variable whose key is not in the session state
NoBook == WithIds(<<VolBlank>>)[1]

NoIndex == [vectors |-> <<>>, vocab_index |-> <<>>, idf |-> <<>>]

NoCall ==
    [op |-> "none", query |-> <<>>, book_idx |-> 0, top_n |-> 0, vec1 |-> <<>>,
     vec2 |-> <<>>, scores |-> <<>>, result |-> <<>>, value |-> 0, raised |-> "none",
     tokenize_calls |-> 0]

\* lines 100-106: the keys the script sets before anything else
InitSession ==
    /\ session_keys = {"favorites", "books", "loaded_initial"}
    /\ books = <<>>
    /\ favorites = <<>>
    /\ loaded_initial = FALSE
    /\ doc_vectors = <<>>
    /\ vocab_index = <<>>
    /\ idf = <<>>
    /\ display_books = <<>>
    /\ selected_book = NoBook
    /\ selected_idx = -1
    /\ built = NoIndex
    /\ call = NoCall

\* ------------------------------------- the IR functions called directly
InitIR == pc = "ir_start" /\ InitSession

\* build_tfidf(documents) on a corpus
IRBuild ==
    /\ pc = "ir_start"
    /\ \E corpus \in Corpora(Catalog, MaxDocs) :
         \E vocab \in Orders(VocabSet(Documents(corpus))) :
           LET index == build_tfidf(Documents(corpus), vocab)
           IN  /\ books' = corpus
               /\ doc_vectors' = index.vectors
               /\ vocab_index' = index.vocab_index
               /\ idf' = index.idf
               /\ call' = [NoCall EXCEPT !.op = "build",
                             !.tokenize_calls = TokenizeCalls(Documents(corpus))]
    /\ pc' = "ir_ready"
    /\ UNCHANGED session

\* search_with_ir(query, books, doc_vectors, vocab_index, idf)
IRSearch ==
    /\ pc = "ir_ready"
    /\ \E query \in Queries :
         call' = [NoCall EXCEPT !.op = "search", !.query = query,
                    !.scores = SearchScores(query, books, doc_vectors, vocab_index, idf),
                    !.result = search_with_ir(query, books, doc_vectors, vocab_index, idf)]
    /\ pc' = "ir_done"
    /\ UNCHANGED <<books, doc_vectors, vocab_index, idf, session>>

\* recommend_similar(book_idx, books, doc_vectors, top_n)
IRRecommend ==
    /\ pc = "ir_ready"
    /\ \E book_idx \in -1..(MaxDocs + 1), top_n \in 0..MaxTopN :
         call' = [NoCall EXCEPT !.op = "recommend", !.book_idx = book_idx,
                    !.top_n = top_n,
                    !.result = recommend_similar(book_idx, books, doc_vectors, top_n)]
    /\ pc' = "ir_done"
    /\ UNCHANGED <<books, doc_vectors, vocab_index, idf, session>>

\* cosine_similarity(vec1, vec2): the function returns a number on every
\* input, it has no raise statement
IRCosine ==
    /\ pc = "ir_start"
    /\ \E vec1, vec2 \in TestVectors :
         call' = [NoCall EXCEPT !.op = "cosine", !.vec1 = vec1, !.vec2 = vec2,
                    !.value = cosine_similarity(vec1, vec2), !.raised = "none"]
    /\ pc' = "ir_cosine"
    /\ UNCHANGED <<books, doc_vectors, vocab_index, idf, session>>

NextIR == IRBuild \/ IRSearch \/ IRRecommend \/ IRCosine

SpecIR == InitIR /\ [][NextIR]_vars

\* ------------------------------------------------- the Streamlit script
\* the "all categories" entry of the category select box
AllCategories == <<"*">>

\* the three entries of the sort select box
SortChoices == {"Score", "rating", "year"}

\* next((i for i, b in enumerate(books) if b['id'] == id), -1)
BookIndexOneBased(bks, id) ==
    IF \E i \in 1..Len(bks) : bks[i].id = id
    THEN CHOOSE i \in 1..Len(bks) :
           bks[i].id = id /\ \A j \in 1..(i - 1) : bks[j].id # id
    ELSE -1

BookIndex(bks, id) ==
    IF \E i \in 1..Len(bks) : bks[i].id = id
    THEN (CHOOSE i \in 1..Len(bks) :
            bks[i].id = id /\ \A j \in 1..(i - 1) : bks[j].id # id) - 1
    ELSE -1

\* lines 237-245: the category filter and the sort applied to the list
\* search_with_ir returned; filtered.sort(key=..., reverse=True) sorts by
\* rating or by year
PostFilter(found, category, sort_by) ==
    LET filtered == IF category # AllCategories
                    THEN SelectSeq(found, LAMBDA b : b.category = category)
                    ELSE found
        keyed == [i \in 1..Len(filtered) |->
                    [book |-> filtered[i],
                     score |-> IF sort_by = "rating" THEN filtered[i].rating
                               ELSE filtered[i].year]]
    IN  IF sort_by \in {"rating", "year"} THEN BooksOf(SortDesc(keyed)) ELSE filtered

\* where the script stands once doc_vectors is assigned (line 165): at the
\* assignment of vocab_index
AfterVectorsSkipsRest == "render"

AfterVectors == "pub_vocab"

Init == pc = "load" /\ InitSession

\* line 156: st.session_state.books = fetch_books_from_google(queries)
LoadFetch ==
    /\ pc = "load"
    /\ ~loaded_initial
    /\ \E corpus \in Corpora(FetchCatalog, MaxBooks) : books' = corpus
    /\ pc' = "build"
    /\ UNCHANGED <<doc_vectors, vocab_index, idf, session, call>>

\* lines 158-163: vectors, vocab_idx, idf_scores = build_tfidf(documents)
LoadBuild ==
    /\ pc = "build"
    /\ \E vocab \in Orders(VocabSet(Documents(books))) :
         built' = build_tfidf(Documents(books), vocab)
    /\ pc' = "pub_vectors"
    /\ UNCHANGED <<session_keys, books, doc_vectors, vocab_index, idf, loaded_initial,
                   favorites, display_books, selected_book, selected_idx, call>>

\* line 165: st.session_state.doc_vectors = vectors
PublishVectors ==
    /\ pc = "pub_vectors"
    /\ doc_vectors' = built.vectors
    /\ session_keys' = session_keys \cup {"doc_vectors"}
    /\ pc' = AfterVectors
    /\ UNCHANGED <<books, vocab_index, idf, loaded_initial, favorites, display_books,
                   selected_book, selected_idx, built, call>>

\* line 166: st.session_state.vocab_index = vocab_idx
PublishVocab ==
    /\ pc = "pub_vocab"
    /\ vocab_index' = built.vocab_index
    /\ session_keys' = session_keys \cup {"vocab_index"}
    /\ pc' = "pub_idf"
    /\ UNCHANGED <<books, doc_vectors, idf, loaded_initial, favorites, display_books,
                   selected_book, selected_idx, built, call>>

\* line 167: st.session_state.idf = idf_scores
PublishIdf ==
    /\ pc = "pub_idf"
    /\ idf' = built.idf
    /\ session_keys' = session_keys \cup {"idf"}
    /\ pc' = "pub_flag"
    /\ UNCHANGED <<books, doc_vectors, vocab_index, loaded_initial, favorites,
                   display_books, selected_book, selected_idx, built, call>>

\* line 168: st.session_state.loaded_initial = True
PublishFlag ==
    /\ pc = "pub_flag"
    /\ loaded_initial' = TRUE
    /\ pc' = "render"
    /\ UNCHANGED <<session_keys, books, doc_vectors, vocab_index, idf, favorites,
                   display_books, selected_book, selected_idx, built, call>>

\* lines 170-249 of the first run: the page is drawn from the session
\* state and display_books is set to books when it is not there yet
FirstRender ==
    /\ pc = "render"
    /\ display_books' = IF "display_books" \in session_keys THEN display_books ELSE books
    /\ session_keys' = session_keys \cup {"display_books"}
    /\ pc' = "ui"
    /\ UNCHANGED <<books, doc_vectors, vocab_index, idf, loaded_initial, favorites,
                   selected_book, selected_idx, built, call>>

\* lines 227-246: the search button with a non-empty query
ClickSearch ==
    /\ pc = "ui"
    /\ \E query \in TypedQueries :
         \E filtered \in {search_with_ir(query, books, doc_vectors, vocab_index, idf)} :
           \E category \in {AllCategories}
                             \cup {books[i].category : i \in 1..Len(books)} :
             \E sort_by \in SortChoices :
               display_books' = PostFilter(filtered, category, sort_by)
    /\ UNCHANGED <<pc, session_keys, books, doc_vectors, vocab_index, idf, loaded_initial,
                   favorites, selected_book, selected_idx, built, call>>

\* lines 218-220: the favourites button
ClickFavorites ==
    /\ pc = "ui"
    /\ display_books' = SelectSeq(books, LAMBDA b : b.id \in Range(favorites))
    /\ UNCHANGED <<pc, session_keys, books, doc_vectors, vocab_index, idf, loaded_initial,
                   favorites, selected_book, selected_idx, built, call>>

\* lines 223-225: the show-all button
ClickAll ==
    /\ pc = "ui"
    /\ display_books' = books
    /\ UNCHANGED <<pc, session_keys, books, doc_vectors, vocab_index, idf, loaded_initial,
                   favorites, selected_book, selected_idx, built, call>>

\* lines 272-276: the view button of a displayed book
ClickView ==
    /\ pc = "ui"
    /\ \E k \in 1..Len(display_books) :
         /\ selected_book' = display_books[k]
         /\ selected_idx' = BookIndex(books, display_books[k].id)
    /\ session_keys' = session_keys \cup {"selected_book", "selected_idx"}
    /\ UNCHANGED <<pc, books, doc_vectors, vocab_index, idf, loaded_initial, favorites,
                   display_books, built, call>>

\* lines 278-284: the favourite button of a displayed book
ClickFav ==
    /\ pc = "ui"
    /\ \E k \in 1..Len(display_books) :
         LET id == display_books[k].id
         IN  favorites' = IF id \in Range(favorites)
                          THEN SelectSeq(favorites, LAMBDA f : f # id)
                          ELSE Append(favorites, id)
    /\ UNCHANGED <<pc, session_keys, books, doc_vectors, vocab_index, idf, loaded_initial,
                   display_books, selected_book, selected_idx, built, call>>

\* lines 306-308: the close button of the detail panel
ClickClose ==
    /\ pc = "ui"
    /\ "selected_book" \in session_keys
    /\ session_keys' = session_keys \ {"selected_book"}
    /\ selected_book' = NoBook
    /\ UNCHANGED <<pc, books, doc_vectors, vocab_index, idf, loaded_initial, favorites,
                   display_books, selected_idx, built, call>>

\* lines 313-318: the books drawn in the similar-books panel
SimilarBooks == recommend_similar(selected_idx, books, doc_vectors, DefaultTopN)

\* lines 326-330: the view button of a book of the similar-books panel
ClickSimilar ==
    /\ pc = "ui"
    /\ "selected_book" \in session_keys
    /\ "selected_idx" \in session_keys /\ selected_idx >= 0
    /\ \E k \in 1..Len(SimilarBooks) :
         /\ selected_book' = SimilarBooks[k]
         /\ selected_idx' = BookIndex(books, SimilarBooks[k].id)
    /\ UNCHANGED <<pc, session_keys, books, doc_vectors, vocab_index, idf, loaded_initial,
                   favorites, display_books, built, call>>

Next ==
    \/ LoadFetch \/ LoadBuild \/ PublishVectors \/ PublishVocab \/ PublishIdf
    \/ PublishFlag \/ FirstRender
    \/ ClickSearch \/ ClickFavorites \/ ClickAll \/ ClickView \/ ClickFav
    \/ ClickClose \/ ClickSimilar

Spec == Init /\ [][Next]_vars

\* ------------------------------------------------------------- claims
\* the score the search call gave to the returned book b
ScoreOf(b) == call.scores[b.id].score

SearchCalled == pc = "ir_done" /\ call.op = "search"

RecommendCalled == pc = "ir_done" /\ call.op = "recommend"

\* C1: search_with_ir returns exactly the corpus documents whose
\* final_score is strictly positive: every returned document is a document
\* of the corpus with a positive score, every document with a positive
\* score is returned exactly once, and no document with a score <= 0 is.
C1_SearchExactlyPositive ==
    SearchCalled =>
        /\ \A k \in 1..Len(call.result) :
              /\ call.result[k] \in Range(books)
              /\ ScoreOf(call.result[k]) > 0
        /\ \A i \in 1..Len(books) :
              Cardinality({k \in 1..Len(call.result) : call.result[k] = books[i]})
                = (IF call.scores[i].score > 0 THEN 1 ELSE 0)

C1_Witness ==
    /\ SearchCalled
    /\ call.result # <<>>
    /\ \E i \in 1..Len(books) : call.scores[i].score <= 0
    /\ Len(call.result) < Len(books)

\* C2: the result of search_with_ir is ordered by final_score descending,
\* and two returned documents with equal final_score stand in the order
\* they have in the corpus.
C2_SearchSortedStable ==
    SearchCalled =>
        \A j, k \in 1..Len(call.result) :
            j < k =>
              /\ ScoreOf(call.result[j]) >= ScoreOf(call.result[k])
              /\ ScoreOf(call.result[j]) = ScoreOf(call.result[k])
                    => call.result[j].id < call.result[k].id

C2_Witness ==
    /\ SearchCalled
    /\ \E j, k \in 1..Len(call.result) :
          j < k /\ ScoreOf(call.result[j]) = ScoreOf(call.result[k])
    /\ \E j, k \in 1..Len(call.result) :
          j < k /\ call.result[j].id > call.result[k].id

\* C3: for a source index i in [0, |corpus|) and top_n = k >= 0,
\* recommend_similar returns exactly min(k, |corpus| - 1) documents, none
\* of them document i; documents of similarity 0 are returned as well.
C3_RecommendCount ==
    (RecommendCalled /\ call.book_idx >= 0 /\ call.book_idx < Len(books)
       /\ call.top_n >= 0) =>
        /\ Len(call.result) = Min(call.top_n, Len(books) - 1)
        /\ \A k \in 1..Len(call.result) :
              /\ call.result[k] \in Range(books)
              /\ call.result[k].id # call.book_idx + 1

C3_Witness ==
    /\ RecommendCalled
    /\ call.book_idx >= 0 /\ call.book_idx < Len(books)
    /\ call.top_n >= Len(books) - 1
    /\ Len(call.result) >= 2
    /\ \E k \in 1..Len(call.result) :
          cosine_similarity(doc_vectors[call.book_idx + 1],
                            doc_vectors[call.result[k].id]) = 0

\* C4: cosine_similarity on two non-empty vectors of different lengths
\* fails fast with an IndexMismatch instead of returning a number.
C4_CosineMismatchFailsFast ==
    (call.op = "cosine" /\ call.vec1 # <<>> /\ call.vec2 # <<>>
       /\ Len(call.vec1) # Len(call.vec2)) => call.raised = "IndexMismatch"

\* C6: recommend_similar with a source index outside [0, |corpus|) returns
\* the empty sequence and raises nothing, whatever top_n is.
C6_RecommendOutOfRange ==
    (RecommendCalled /\ (call.book_idx < 0 \/ call.book_idx >= Len(books))) =>
        call.result = <<>> /\ call.raised = "none"

C6_Witness ==
    /\ RecommendCalled
    /\ call.book_idx = -1
    /\ Len(books) >= 2
    /\ call.top_n > 0
    /\ call.result = <<>>

\* C7: build_tfidf gives one vector per document, in corpus order, each of
\* length |vocabulary|; a document without text gets an all-zero vector;
\* the query vector of every query has length |vocabulary| too, also when
\* the query holds words that are not in the vocabulary.
C7_VectorShape ==
    pc \in {"ir_ready", "ir_done"} =>
        LET V == Cardinality(VocabSet(Documents(books)))
        IN  /\ Cardinality(DOMAIN vocab_index) = V
            /\ Len(doc_vectors) = Len(books)
            /\ \A d \in 1..Len(books) :
                  /\ Len(doc_vectors[d]) = V
                  /\ \A s \in 1..V :
                        (doc_vectors[d][s] # 0) <=>
                          (\E w \in Range(tokenize(DocumentOf(books[d]))) :
                              vocab_index[w] = s - 1)
                  /\ tokenize(DocumentOf(books[d])) = <<>>
                        => \A s \in 1..V : doc_vectors[d][s] = 0
            /\ call.op = "search" =>
                  Len(Vectorize(tokenize(call.query), vocab_index, idf)) = V

C7_Witness ==
    /\ SearchCalled
    /\ call.query = <<"z", "z">>
    /\ Len(books) >= 2
    /\ vocab_index # <<>>
    /\ \E d \in 1..Len(books) : tokenize(DocumentOf(books[d])) = <<>>
    /\ \E d \in 1..Len(books) : tokenize(DocumentOf(books[d])) # <<>>

\* C8: the final_score of a document is 4 x cos_score plus 3 for every
\* query token (each occurrence counted) found in the tokenized title plus
\* 2 for every query token (each occurrence counted) found in the
\* tokenized author.
C8_FieldBoost ==
    SearchCalled =>
        LET q == tokenize(call.query)
            qv == Vectorize(q, vocab_index, idf)
            Hits(field) ==
                Cardinality({k \in 1..Len(q) : \E m \in 1..Len(field) : field[m] = q[k]})
        IN  \A i \in 1..Len(books) :
              call.scores[i].score =
                  4 * cosine_similarity(qv, doc_vectors[i])
                  + CosScale * (3 * Hits(tokenize(books[i].title))
                                + 2 * Hits(tokenize(books[i].author)))

C8_Witness ==
    /\ SearchCalled
    /\ call.query = <<"p", "y", " ", "p", "y">>
    /\ \E i \in 1..Len(books) :
          /\ <<"p", "y">> \in Range(tokenize(books[i].title))
          /\ call.scores[i].score >= 6 * CosScale
    /\ \E i \in 1..Len(books) :
          /\ <<"p", "y">> \in Range(tokenize(books[i].author))
          /\ call.scores[i].score >= 4 * CosScale
          /\ call.scores[i].score < 6 * CosScale

\* C9: one build tokenizes each document exactly once: the number of
\* tokenize calls of a build is the number of documents.
C9_TokenizedOncePerDocument ==
    call.op = "build" => call.tokenize_calls = Len(books)

\* C5: wherever the page is drawn or a button is handled, the corpus, the
\* vocabulary, the IDF table and the document vectors of the session state
\* are those of one build of the stored corpus, all assigned.
C5_IndexPublishedWhole ==
    pc \in {"render", "ui"} =>
        /\ {"books", "doc_vectors", "vocab_index", "idf"} \subseteq session_keys
        /\ loaded_initial
        /\ DOMAIN vocab_index = VocabSet(Documents(books))
        /\ {vocab_index[w] : w \in DOMAIN vocab_index}
              = 0..(Cardinality(DOMAIN vocab_index) - 1)
        /\ LET vocab == [i \in 1..Cardinality(DOMAIN vocab_index) |->
                          CHOOSE w \in DOMAIN vocab_index : vocab_index[w] = i - 1]
           IN  build_tfidf(Documents(books), vocab)
                 = [vectors |-> doc_vectors, vocab_index |-> vocab_index, idf |-> idf]

C5_Witness ==
    /\ pc = "ui"
    /\ Len(books) >= 2
    /\ Cardinality(DOMAIN vocab_index) >= 3
    /\ Len(doc_vectors) = Len(books)
    /\ display_books # books

\* C10: whenever a selected book is stored with a selected index >= 0, the
\* corpus document at that index has the id of the selected book, and the
\* recommendations drawn for it do not contain the selected book.
C10_SelectionAligned ==
    ("selected_book" \in session_keys /\ "selected_idx" \in session_keys
       /\ selected_idx >= 0) =>
        /\ selected_idx < Len(books)
        /\ books[selected_idx + 1].id = selected_book.id
        /\ \A k \in 1..Len(SimilarBooks) : SimilarBooks[k].id # selected_book.id

C10_Witness ==
    /\ pc = "ui"
    /\ "selected_book" \in session_keys
    /\ selected_idx = 1
    /\ Len(display_books) >= 2
    /\ display_books[1] = selected_book
    /\ SimilarBooks # <<>>

====
